---------------------------- MODULE Spec2Model ----------------------------
(***************************************************************************)
(* Model of cpn-core's provider lookups.                                   *)
(*                                                                         *)
(* Spec      : one lookup through CsgtEngine.get_data, i.e.                *)
(*             BaseGetDataEngine.get_data -> CsgtEngine._get_data ->       *)
(*             _CsgtCoreEngine.get_data (the captcha retry state machine), *)
(*             with the provider's answers, transport errors and task      *)
(*             cancellation chosen nondeterministically.                   *)
(* SpecProv  : the other provider engines behind BaseGetDataEngine          *)
(*             (CheckPhatNguoi, PhatNguoi, TraCuuPhatNguoi, Zmio) and       *)
(*             EtrafficEngine, with the sessions each lookup creates.      *)
(* SpecFair  : Spec with its steps scheduled fairly.                       *)
(* SpecConc  : a CSGT lookup beside another engine's, on one event loop.   *)
(* SpecCalls : several get_data calls in flight on one engine instance.    *)
(* SpecLookup, SpecVehicle, SpecNotify, SpecHelper : the lookup over       *)
(*             several providers, get_vehicle_enum, the notification       *)
(*             engines and one RequestSessionHelper.                       *)
(*                                                                         *)
(* Python values: None is NoneVal, a tuple of ViolationDetail is a record  *)
(* [kind |-> "tuple", items |-> sequence].  Non-ASCII literals of the      *)
(* source are written without diacritics ("Xe may" for "Xe máy").          *)
(***************************************************************************)
EXTENDS Integers, Sequences, FiniteSets, TLC

\* ------------------------------------------------------------------ bounds
\* Largest retry_captcha the lookups are run with.
MaxRetry == 3
\* Most violation entries in one provider response.
MaxEntries == 2
\* Most lookups made on one engine inside one context (SpecProv).
MaxLookups == 2

\* -------------------------------------------------------- python values
NoneVal == [kind |-> "None", items |-> <<>>]
TupleVal(s) == [kind |-> "tuple", items |-> s]
EmptyTuple == TupleVal(<<>>)

RECURSIVE SetToSeq(_)
\* tuple(a_set): the elements of the set, each once, in some fixed order.
SetToSeq(S) ==
  IF S = {} THEN <<>>
  ELSE LET x == CHOOSE y \in S : TRUE IN <<x>> \o SetToSeq(S \ {x})

SeqToSet(s) == {s[i] : i \in 1..Len(s)}

\* ------------------------------------------------------- vehicle types
car == 1
motorbike == 2
electric_motorbike == 3
VehicleTypeEnum == {car, motorbike, electric_motorbike}

\* A Python value handed to get_vehicle_enum: a str, an int, or a member of
\* VehicleTypeEnum.
PyStr(x) == [tag |-> "str", s |-> x, n |-> 0]
PyInt(x) == [tag |-> "int", s |-> "", n |-> x]
PyEnum(x) == [tag |-> "enum", s |-> "", n |-> x]
\* A bool (False is 0, True is 1) and a float with the whole value x; the
\* literal patterns of a match statement compare them to 1, 2, 3 with ==.
PyBool(x) == [tag |-> "bool", s |-> "", n |-> x]
PyFloat(x) == [tag |-> "float", s |-> "", n |-> x]

\* What a call did: returned a value, or raised an exception.
Ret(v) == [raised |-> FALSE, value |-> v, exc |-> "none"]
Raise(e) == [raised |-> TRUE, value |-> NoneVal, exc |-> e]

\* get_vehicle_enum: returns the variant, raises ValueError for an unknown
\* input.
get_vehicle_enumDefaultsToCar(x) ==
  IF x.tag = "enum" THEN Ret(x.n)
  ELSE IF x.tag \in {"int", "bool", "float"}
    THEN (IF x.n \in VehicleTypeEnum THEN Ret(x.n) ELSE Ret(car))
  ELSE CASE x.s \in {"car", "O to", "1"} -> Ret(car)
         [] x.s \in {"motorbike", "Xe may", "2"} -> Ret(motorbike)
         [] x.s \in {"electric_motorbike", "Xe may dien", "3"}
              -> Ret(electric_motorbike)
         [] OTHER -> Ret(car)

get_vehicle_enum(x) ==
  IF x.tag = "enum" THEN Ret(x.n)
  ELSE IF x.tag \in {"int", "bool", "float"}
    THEN (IF x.n \in VehicleTypeEnum THEN Ret(x.n) ELSE Raise("ValueError"))
  ELSE CASE x.s \in {"car", "O to", "1"} -> Ret(car)
         [] x.s \in {"motorbike", "Xe may", "2"} -> Ret(motorbike)
         [] x.s \in {"electric_motorbike", "Xe may dien", "3"}
              -> Ret(electric_motorbike)
         [] OTHER -> Raise("ValueError")

\* ---------------------------------------------------- response entries
\* One violation block of a provider response: the text of its fields, and
\* whether a mandatory field (plate, colour, date, ...) cannot be located.
Entry(p, t, s, m) == [plate |-> p, type |-> t, status |-> s, missing |-> m]

Entries ==
  { Entry("30A-1", "Xe may", "Da xu phat", FALSE),
    Entry("30A-2", "O to", "Chua xu phat", FALSE),
    Entry("30A-3", "Xe may", "Da xu phat", TRUE),
    Entry("30A-4", "May cay", "Da xu phat", FALSE) }

\* ViolationDetail built from an entry whose fields were all located and
\* whose vehicle type is known.
ViolationDetail(e) ==
  [plate |-> e.plate, type |-> get_vehicle_enum(PyStr(e.type)).value,
   status |-> (e.status = "Da xu phat")]

EntrySeqs == UNION {[1..n -> Entries] : n \in 0..MaxEntries}

\* ===================================================== CSGT lookup (Spec)
\* A response body as the sequence of its characters.
Body404 == <<"4", "0", "4">>
Bodies ==
  { Body404, <<" ", "4", "0", "4", "\n">>, <<"\n", "4", "0", "4">>,
    <<>>, <<" ">>, <<"4", "0", "4", "0">>, <<"4", " ", "0", "4">>,
    <<"o", "k">> }

Whitespace == {" ", "\n", "\t", "\r"}

RECURSIVE LStrip(_)
LStrip(b) ==
  IF b # <<>> /\ Head(b) \in Whitespace THEN LStrip(Tail(b)) ELSE b

RECURSIVE RStrip(_)
RStrip(b) ==
  IF b # <<>> /\ b[Len(b)] \in Whitespace
    THEN RStrip(SubSeq(b, 1, Len(b) - 1)) ELSE b

\* str.strip()
Strip(b) == RStrip(LStrip(b))

WrongCaptchaNoStrip(html_data) == html_data = Body404

WrongCaptchaStartsWith(html_data) ==
  Len(Strip(html_data)) >= 3 /\ SubSeq(Strip(html_data), 1, 3) = Body404

\* csgt.py:278, the test that makes get_data raise ResolveCaptchaFail.
WrongCaptcha(html_data) == Strip(html_data) = Body404

\* The page answered to the data fetch: whether it holds the div whose id is
\* bodyPrint123, and the violation blocks inside it.
Page(d, es) == [div |-> d, entries |-> es]
Pages == {Page(TRUE, es) : es \in EntrySeqs} \cup {Page(FALSE, <<>>)}

\* _CsgtCoreEngine._parse_violation applied to one block, on the engine's
\* _violation_details_set: a block with a missing field is logged and
\* skipped; get_vehicle_enum may raise.
RECURSIVE CsgtParseViolations(_, _)
CsgtParseViolations(es, acc) ==
  IF es = <<>> THEN Ret(acc)
  ELSE LET e == Head(es) IN
    IF e.missing THEN CsgtParseViolations(Tail(es), acc)
    ELSE IF get_vehicle_enum(PyStr(e.type)).raised THEN Raise("ValueError")
    ELSE CsgtParseViolations(Tail(es), acc \cup {ViolationDetail(e)})

\* _CsgtCoreEngine._parse_html: None without the div, else
\* _parse_violations: tuple(self._violation_details_set).
CsgtParseHtml(page, details_set) ==
  IF ~page.div THEN Ret(NoneVal)
  ELSE LET r == CsgtParseViolations(page.entries, details_set) IN
    IF r.raised THEN r ELSE Ret(TupleVal(SetToSeq(r.value)))

\* ------------------------------------------------- BaseGetDataEngine
\* Exceptions that derive from BaseException only: no `except Exception'
\* clause catches them.
BaseExceptionOnly == {"CancelledError"}

\* The attributes each engine's constructor defines on the instance (api is a
\* property of every engine class).
EngineAttrs(eng) ==
  IF eng = "etraffic" THEN {"api", "_request_engine"}
  ELSE IF eng = "csgt" THEN {"api", "_timeout", "_retry_captcha"}
  ELSE {"api", "_timeout"}

\* The attributes the except clause chosen for exception e reads while
\* logging: the timeout clause formats self._timeout (base.py:49-56,
\* etraffic.py:217-224).
HandlerReads(e) ==
  IF e \in {"TimeoutException", "Timeout"} THEN {"api", "_timeout"}
  ELSE {"api"}

\* base.py without its last clause, `except Exception'.
BaseGetDataNamedOnly(eng, out) ==
  IF ~out.raised THEN out
  ELSE IF out.exc \in {"TimeoutException", "StreamError", "GetTokenError",
                       "ServerLimitError", "ParseResponseError"}
    THEN Ret(NoneVal)
  ELSE out

\* get_data of BaseGetDataEngine (and EtrafficEngine's override, which has the
\* same shape): the value of _get_data is returned as it is; an exception is
\* logged by its except clause and the call returns None.
BaseGetData(eng, out) ==
  IF ~out.raised THEN out
  ELSE IF out.exc \in BaseExceptionOnly THEN out
  ELSE IF HandlerReads(out.exc) \subseteq EngineAttrs(eng) THEN Ret(NoneVal)
  ELSE Raise("AttributeError")

\* ------------------------------------------------ RequestSessionHelper
\* The _session property: creates the client when _session_ is None.
SessionUse(s) == IF s = "None" THEN "open" ELSE s

SessionExitLeavesOpen(s) == s

\* __aexit__: closes the client when there is one.
SessionExit(s) == IF s = "None" THEN "None" ELSE "closed"

\* ------------------------------------------- state of the other engines
VARIABLES
  engine,        \* the engine class
  plate_type,    \* get_vehicle_enum(plate_info.type) of the lookups
  ppc,           \* new, entered, token_wait, waiting, exited, enter_failed
  psession_,     \* _session_ of the engine (of its request engine)
  req_sessions,  \* _session_ of each request engine built by a _get_data call
  lookups,       \* get_data calls finished
  presp,         \* the answer to the last data request
  praw,          \* what the last _get_data did
  poutcome       \* what the last get_data gave its caller

provVars ==
  <<engine, plate_type, ppc, psession_, req_sessions, lookups, presp, praw,
    poutcome>>

\* --------------------------------------------------- _CsgtCoreEngine
VARIABLES
  retry_captcha,          \* CsgtEngine._retry_captcha
  pc,                     \* where the lookup is suspended
  attempt_number,         \* tenacity's retry_state.attempt_number
  session_,               \* _CsgtCoreEngine._session_: None, open, closed
  violation_details_set,  \* _CsgtCoreEngine._violation_details_set
  phpsessid,              \* the token of the running attempt
  outcome,                \* what CsgtEngine.get_data gave its caller
  trace,                  \* the steps taken, in order: [op, att]
  cookies,                \* the PHPSESSID cookie of each captcha response
  bodies,                 \* the body of each submission response
  pages,                  \* the page of each data-fetch response
  created,                \* AsyncClient objects built by the _session property
  jar,                    \* the PHPSESSID cookie kept by the client
  sent                    \* each request sent: [op, att, client, cookie]

csgtVars ==
  <<retry_captcha, pc, attempt_number, session_, violation_details_set,
    phpsessid, outcome, trace, cookies, bodies, pages, created, jar, sent>>

\* ------------------------------------------- lookup over several providers
VARIABLES
  lpc,          \* idle, running, returned, raised
  providers,    \* the engines the lookup runs
  lplate_type,  \* get_vehicle_enum(plate_info.type) of the lookup
  lresp,        \* the answer each provider gave to its data request
  lresults      \* what get_data of each engine gave

lookupVars == <<lpc, providers, lplate_type, lresp, lresults>>

\* ------------------------------------------------------ get_vehicle_enum
VARIABLES
  vpc,   \* called, returned
  vin,   \* the two values handed to get_vehicle_enum
  vout   \* what each call did

vehicleVars == <<vpc, vin, vout>>

\* --------------------------------------------------------- notifications
VARIABLES
  nchannel,    \* discord, telegram
  ncred,       \* the field values given to the config class
  npc,         \* new, built, rejected, sending, done, exited
  nmessages,   \* how many messages send is given
  nfate,       \* what the channel does with the login, the recipient lookup
               \* and each message
  nattempted,  \* how many of the messages were handed to the channel
  ndelivered,  \* how many of the messages the channel delivered
  nresult,     \* what send gave its caller
  ninflight    \* Telegram: the messages whose request is still running

notifVars ==
  <<nchannel, ncred, npc, nmessages, nfate, nattempted, ndelivered, nresult,
    ninflight>>

\* -------------------------------------------- one RequestSessionHelper
VARIABLES
  helper,      \* httpx (_utils) or aiohttp (utils)
  hdepth,      \* `async with' blocks entered and not yet left
  h_session_,  \* _session_: None, open, closed
  hcreated,    \* clients built by the _session property
  hcloses,     \* calls of the client's close
  hentries,    \* `async with' blocks entered so far
  hrequests,   \* requests made through _session
  hfailed      \* requests made on a client that was already closed

helperVars ==
  <<helper, hdepth, h_session_, hcreated, hcloses, hentries, hrequests,
    hfailed>>

\* ------------------------------- concurrent get_data calls on one engine
VARIABLES
  cengine,        \* the engine instance the calls are made on
  ctype,          \* call -> vehicle type of its PlateInfo
  cpc,            \* call -> new, waiting (at the await of its request), done
  cresp,          \* call -> the answer to its request
  parse_engines,  \* _violation_details_set of each parse engine built so far
  cowner,         \* call -> index of its parse engine, 0 before it has one
  cout            \* call -> what get_data gave

callVars == <<cengine, ctype, cpc, cresp, parse_engines, cowner, cout>>

restVars == <<lookupVars, vehicleVars, notifVars, helperVars, callVars>>
notCsgtVars == <<provVars, restVars>>
notProvVars == <<csgtVars, restVars>>

RetryValues == (0 - 1)..MaxRetry

Pending == [raised |-> FALSE, value |-> NoneVal, exc |-> "pending"]

Ev(o, a) == [op |-> o, att |-> a]

\* The PHPSESSID cookie of a captcha response: absent, empty, or the fresh
\* token the provider issues for that attempt.
Cookie(p, v) == [present |-> p, value |-> v]
Token(a) == "PHPSESSID-" \o ToString(a)
CookieChoices(a) ==
  {Cookie(FALSE, ""), Cookie(TRUE, ""), Cookie(TRUE, Token(a))}

NoCookie == Cookie(FALSE, "")

ExtractCookiesKeepsFirst(j, c) == IF j.present THEN j ELSE c

\* The client keeps the cookies a response sets (the PHPSESSID cookie read at
\* csgt.py:66 is one of them) and sends them with its later requests.
ExtractCookies(j, c) == IF c.present THEN c ELSE j

\* A request sent on the client: which client object, and the PHPSESSID cookie
\* it carries.
Req(o, a, cl, c) == [op |-> o, att |-> a, client |-> cl, cookie |-> c]

NoPhpsessidIsNone(c) == ~c.present

NoPhpsessidUnchecked(c) == FALSE

\* csgt.py:68, `if not phpsessid': no cookie, or an empty one.
NoPhpsessid(c) == ~c.present \/ c.value = ""

OnRetryErrorEmpty == Ret(EmptyTuple)

\* csgt.py:293-300: RetryError is logged and get_data falls off its end.
OnRetryError == Ret(NoneVal)

\* Exceptions the httpx client raises at a request.
CaptchaErrors == {"TimeoutException", "ConnectError", "HTTPStatusError"}
RequestErrors == {"TimeoutException", "ConnectError"}

\* The places where the coroutine is suspended.
Suspended == {"captcha_wait", "submit_wait", "fetch_wait", "retry_sleep"}

stop_after_attemptLate(n, max) == n > max

stop_after_attemptDouble(n, max) == n >= 2 * max

\* csgt.py:256, stop=stop_after_attempt(self._retry_captcha)
stop_after_attempt(n, max) == n >= max

retry_if_exception_typeTimeout(e) ==
  e \in {"ResolveCaptchaFail", "TimeoutException"}

retry_if_exception_typeAny(e) == TRUE

\* csgt.py:257, retry=retry_if_exception_type(ResolveCaptchaFail)
retry_if_exception_type(e) == e = "ResolveCaptchaFail"

InitCsgt ==
  /\ retry_captcha \in RetryValues
  /\ pc = "idle"
  /\ attempt_number = 0
  /\ session_ = "None"
  /\ violation_details_set = {}
  /\ phpsessid = ""
  /\ outcome = Pending
  /\ trace = <<>>
  /\ cookies = <<>>
  /\ bodies = <<>>
  /\ pages = <<>>
  /\ created = 0
  /\ jar = NoCookie
  /\ sent = <<>>

\* _CsgtCoreEngine.get_data returns or raises `out': the async with of
\* CsgtEngine._get_data closes the session, BaseGetDataEngine.get_data turns
\* the outcome into what the caller gets.
Finish(out, tr) ==
  /\ pc' = "done"
  /\ session_' = SessionExit(session_)
  /\ outcome' = BaseGetData("csgt", out)
  /\ trace' = tr \o (IF session_ = "None" THEN <<>>
                     ELSE <<Ev("close", attempt_number)>>)
  /\ UNCHANGED <<retry_captcha, attempt_number, phpsessid>>

\* An exception e leaves the `with attempt' block: tenacity retries it,
\* raises RetryError (caught at csgt.py:293, get_data returns None), or
\* re-raises it.
AttemptRaised(e, tr) ==
  IF retry_if_exception_type(e)
    THEN IF stop_after_attempt(attempt_number, retry_captcha)
      THEN Finish(OnRetryError, tr)
      ELSE /\ pc' = "retry_sleep"
           /\ trace' = tr
           /\ UNCHANGED <<retry_captcha, attempt_number, session_, phpsessid,
                          outcome>>
    ELSE Finish(Raise(e), tr)

\* The attempt starts: the captcha request is sent on self._session.
StartAttempt ==
  /\ attempt_number' = attempt_number + 1
  /\ session_' = SessionUse(session_)
  /\ created' = (IF session_ = "None" THEN created + 1 ELSE created)
  /\ pc' = "captcha_wait"
  /\ trace' = Append(trace, Ev("captcha_req", attempt_number + 1))
  /\ sent' = Append(sent, Req("captcha_req", attempt_number + 1, created',
                              jar))
  /\ UNCHANGED <<retry_captcha, violation_details_set, phpsessid, outcome,
                 cookies, bodies, pages, jar>>

\* CsgtEngine.get_data is called.
GetData ==
  /\ UNCHANGED notCsgtVars
  /\ pc = "idle"
  /\ StartAttempt

\* asyncio.sleep(0) between two attempts is over.
RetryWake ==
  /\ UNCHANGED notCsgtVars
  /\ pc = "retry_sleep"
  /\ StartAttempt

\* The captcha response arrives (csgt.py:65-76, 266-277): without a token
\* get_data returns None; with one the image goes through _bypass_captcha,
\* which returns some text (solved) or raises on an image it cannot decode,
\* and the answer is submitted.
CaptchaResponded ==
  /\ UNCHANGED notCsgtVars
  /\ pc = "captcha_wait"
  /\ \E c \in CookieChoices(attempt_number) :
       LET tr == Append(trace, Ev("captcha_resp", attempt_number)) IN
       /\ cookies' = Append(cookies, c)
       /\ jar' = ExtractCookies(jar, c)
       /\ UNCHANGED <<violation_details_set, bodies, pages, created>>
       /\ IF NoPhpsessid(c)
            THEN Finish(Ret(NoneVal), tr) /\ sent' = sent
            ELSE \E solved \in BOOLEAN :
              IF solved
                THEN /\ phpsessid' = c.value
                     /\ pc' = "submit_wait"
                     /\ trace' = tr \o <<Ev("ocr", attempt_number),
                                         Ev("submit_req", attempt_number)>>
                     /\ sent' = Append(sent, Req("submit_req", attempt_number,
                                                 created, Cookie(TRUE, c.value)))
                     /\ UNCHANGED <<retry_captcha, attempt_number, session_,
                                    outcome>>
                ELSE /\ AttemptRaised("UnidentifiedImageError",
                                      tr \o <<Ev("ocr", attempt_number),
                                              Ev("ocr_err", attempt_number)>>)
                     /\ sent' = sent

\* The captcha request fails.
CaptchaFailed ==
  /\ UNCHANGED notCsgtVars
  /\ pc = "captcha_wait"
  /\ \E e \in CaptchaErrors :
       AttemptRaised(e, Append(trace, Ev("captcha_err", attempt_number)))
  /\ UNCHANGED <<violation_details_set, cookies, bodies, pages, created, jar,
                 sent>>

\* The submission response arrives (csgt.py:277-288).
SubmitResponded ==
  /\ UNCHANGED notCsgtVars
  /\ pc = "submit_wait"
  /\ \E html_data \in Bodies :
       LET tr == Append(trace, Ev("submit_resp", attempt_number)) IN
       /\ bodies' = Append(bodies, html_data)
       /\ UNCHANGED <<violation_details_set, cookies, pages, created, jar>>
       /\ IF WrongCaptcha(html_data)
            THEN AttemptRaised("ResolveCaptchaFail", tr) /\ sent' = sent
            ELSE /\ pc' = "fetch_wait"
                 /\ trace' = Append(tr, Ev("fetch_req", attempt_number))
                 /\ sent' = Append(sent, Req("fetch_req", attempt_number,
                                             created, jar))
                 /\ UNCHANGED <<retry_captcha, attempt_number, session_,
                                phpsessid, outcome>>

\* The submission fails.
SubmitFailed ==
  /\ UNCHANGED notCsgtVars
  /\ pc = "submit_wait"
  /\ \E e \in RequestErrors :
       AttemptRaised(e, Append(trace, Ev("submit_err", attempt_number)))
  /\ UNCHANGED <<violation_details_set, cookies, bodies, pages, created, jar,
                 sent>>

\* The data-fetch response arrives and is parsed (csgt.py:288-292). When the
\* parser raises, the engine object is dropped with whatever its set holds.
FetchResponded ==
  /\ UNCHANGED notCsgtVars
  /\ pc = "fetch_wait"
  /\ \E page \in Pages :
       LET tr == Append(trace, Ev("fetch_resp", attempt_number))
           r == CsgtParseHtml(page, violation_details_set)
       IN
       /\ pages' = Append(pages, page)
       /\ violation_details_set' =
            (IF r.raised \/ r.value.kind = "None" THEN violation_details_set
             ELSE SeqToSet(r.value.items))
       /\ UNCHANGED <<cookies, bodies, created, jar, sent>>
       /\ IF r.raised THEN AttemptRaised(r.exc, tr) ELSE Finish(r, tr)

\* The data fetch fails.
FetchFailed ==
  /\ UNCHANGED notCsgtVars
  /\ pc = "fetch_wait"
  /\ \E e \in RequestErrors :
       AttemptRaised(e, Append(trace, Ev("fetch_err", attempt_number)))
  /\ UNCHANGED <<violation_details_set, cookies, bodies, pages, created, jar,
                 sent>>

\* The task running the lookup is cancelled while it is suspended:
\* CancelledError is raised at the await.
Cancel ==
  /\ UNCHANGED notCsgtVars
  /\ pc \in Suspended
  /\ AttemptRaised("CancelledError", Append(trace, Ev("cancel", attempt_number)))
  /\ UNCHANGED <<violation_details_set, cookies, bodies, pages, created, jar,
                 sent>>

NextCsgt ==
  \/ GetData
  \/ RetryWake
  \/ CaptchaResponded
  \/ CaptchaFailed
  \/ SubmitResponded
  \/ SubmitFailed
  \/ FetchResponded
  \/ FetchFailed
  \/ Cancel


\* ============================================ other providers (SpecProv)
Engines == {"checkphatnguoi", "phatnguoi", "tracuuphatnguoi", "zmio", "etraffic"}

\* What a provider answers to the data request.
\*   error     the request raises exc
\*   falsy     an empty body (null, {})
\*   none      the provider's own "no violation" marker
\*             (checkphatnguoi: status 2; zm.io: data.json null)
\*   refused   the provider's failure marker (checkphatnguoi: a status other
\*             than 1 and 2; zm.io: data null; tracuuphatnguoi: stt "0";
\*             etraffic: limit_response)
\*   listing   the violation blocks found, possibly none
Resp(k, es, e) == [kind |-> k, entries |-> es, exc |-> e]

ProvErrors(eng) ==
  IF eng = "etraffic" THEN {"Timeout", "CurlError", "JSONDecodeError"}
  ELSE IF eng = "checkphatnguoi"
    THEN {"TimeoutError", "ClientResponseError", "JSONDecodeError"}
  ELSE IF eng = "tracuuphatnguoi"
    THEN {"TimeoutException", "HTTPStatusError", "JSONDecodeError"}
  ELSE IF eng = "zmio"
    THEN {"TimeoutException", "StreamError", "JSONDecodeError"}
  ELSE {"TimeoutException", "StreamError"}

ProvResponses(eng) ==
  {Resp("error", <<>>, e) : e \in ProvErrors(eng)}
    \cup {Resp("listing", es, "none") : es \in EntrySeqs}
    \cup (IF eng \in {"checkphatnguoi", "zmio"}
            THEN {Resp("falsy", <<>>, "none"), Resp("none", <<>>, "none")}
            ELSE {})
    \cup (IF eng # "phatnguoi" THEN {Resp("refused", <<>>, "none")} ELSE {})

\* _CheckPhatNguoiParseEngine._parse_violation over the data of a found
\* response: a block of another vehicle type is skipped, a block without one
\* of the keys raises KeyError.
RECURSIVE CheckPhatNguoiParseViolationsNoFilter(_, _, _)
CheckPhatNguoiParseViolationsNoFilter(es, vehicle_type, acc) ==
  IF es = <<>> THEN Ret(acc)
  ELSE LET e == Head(es) IN
    IF get_vehicle_enum(PyStr(e.type)).raised THEN Raise("ValueError")
    ELSE IF e.missing THEN Raise("KeyError")
    ELSE CheckPhatNguoiParseViolationsNoFilter(Tail(es), vehicle_type,
                                               acc \cup {ViolationDetail(e)})

RECURSIVE CheckPhatNguoiParseViolations(_, _, _)
CheckPhatNguoiParseViolations(es, vehicle_type, acc) ==
  IF es = <<>> THEN Ret(acc)
  ELSE LET e == Head(es)
           parsed_type == get_vehicle_enum(PyStr(e.type))
       IN
    IF parsed_type.raised THEN Raise("ValueError")
    ELSE IF parsed_type.value # vehicle_type
      THEN CheckPhatNguoiParseViolations(Tail(es), vehicle_type, acc)
    ELSE IF e.missing THEN Raise("KeyError")
    ELSE CheckPhatNguoiParseViolations(Tail(es), vehicle_type,
                                       acc \cup {ViolationDetail(e)})

\* _CheckPhatNguoiParseEngine.parse
CheckPhatNguoiParse(resp, vehicle_type) ==
  IF resp.kind = "none" THEN Ret(EmptyTuple)
  ELSE IF resp.kind # "listing" THEN Ret(NoneVal)
  ELSE LET r == CheckPhatNguoiParseViolations(resp.entries, vehicle_type, {})
       IN IF r.raised THEN r ELSE Ret(TupleVal(SetToSeq(r.value)))

\* CheckPhatNguoiEngine._get_data
CheckPhatNguoiGetData(resp, vehicle_type) ==
  IF resp.kind = "error" THEN Raise(resp.exc)
  ELSE IF resp.kind = "falsy" THEN Ret(NoneVal)
  ELSE CheckPhatNguoiParse(resp, vehicle_type)

\* _PhatNguoiParseEngine._parse_violation over the tbody tags: a block with a
\* missing field is logged and skipped.
RECURSIVE PhatNguoiParseViolations(_, _)
PhatNguoiParseViolations(es, acc) ==
  IF es = <<>> THEN Ret(acc)
  ELSE LET e == Head(es) IN
    IF e.missing THEN PhatNguoiParseViolations(Tail(es), acc)
    ELSE IF get_vehicle_enum(PyStr(e.type)).raised THEN Raise("ValueError")
    ELSE PhatNguoiParseViolations(Tail(es), acc \cup {ViolationDetail(e)})

\* _PhatNguoiParseEngine.parse: None when the page has no tbody tag.
PhatNguoiParse(violation_htmls) ==
  IF violation_htmls = <<>> THEN Ret(NoneVal)
  ELSE LET r == PhatNguoiParseViolations(violation_htmls, {})
       IN IF r.raised THEN r ELSE Ret(TupleVal(SetToSeq(r.value)))

\* PhatNguoiEngine._get_data
PhatNguoiGetData(resp) ==
  IF resp.kind = "error" THEN Raise(resp.exc)
  ELSE PhatNguoiParse(resp.entries)

\* _TraCuuPhatNguoiParseEngine.parse: a tuple with one record per table; a
\* table with a missing field raises ParseResponseError.
RECURSIVE TraCuuPhatNguoiParse(_)
TraCuuPhatNguoiParse(tables) ==
  IF tables = <<>> THEN Ret(<<>>)
  ELSE LET e == Head(tables) IN
    IF e.missing THEN Raise("ParseResponseError")
    ELSE IF get_vehicle_enum(PyStr(e.type)).raised THEN Raise("ValueError")
    ELSE LET r == TraCuuPhatNguoiParse(Tail(tables)) IN
      IF r.raised THEN r ELSE Ret(<<ViolationDetail(e)>> \o r.value)

\* TraCuuPhatNguoiEngine._get_data, from the answer to the data request.
TraCuuPhatNguoiGetData(resp) ==
  IF resp.kind = "error" THEN Raise(resp.exc)
  ELSE IF resp.kind = "refused" THEN Ret(NoneVal)
  ELSE LET r == TraCuuPhatNguoiParse(resp.entries)
       IN IF r.raised THEN r ELSE Ret(TupleVal(r.value))

\* _ZmioParseEngine.parse
RECURSIVE ZmioParseViolations(_, _)
ZmioParseViolations(es, acc) ==
  IF es = <<>> THEN Ret(acc)
  ELSE LET e == Head(es) IN
    IF e.missing THEN Raise("KeyError")
    ELSE IF get_vehicle_enum(PyStr(e.type)).raised THEN Raise("ValueError")
    ELSE ZmioParseViolations(Tail(es), acc \cup {ViolationDetail(e)})

\* ZmioEngine._get_data
ZmioGetData(resp) ==
  IF resp.kind = "error" THEN Raise(resp.exc)
  ELSE IF resp.kind \in {"falsy", "refused"} THEN Ret(NoneVal)
  ELSE IF resp.kind = "none" THEN Ret(EmptyTuple)
  ELSE LET r == ZmioParseViolations(resp.entries, {})
       IN IF r.raised THEN r ELSE Ret(TupleVal(SetToSeq(r.value)))

\* _EtrafficGetDataParseEngine.parse: a tuple with one record per entry.
RECURSIVE EtrafficParse(_)
EtrafficParse(violations) ==
  IF violations = <<>> THEN Ret(<<>>)
  ELSE LET e == Head(violations) IN
    IF e.missing THEN Raise("KeyError")
    ELSE IF get_vehicle_enum(PyStr(e.type)).raised THEN Raise("ValueError")
    ELSE LET r == EtrafficParse(Tail(violations)) IN
      IF r.raised THEN r ELSE Ret(<<ViolationDetail(e)>> \o r.value)

\* EtrafficEngine._get_data
EtrafficGetData(resp) ==
  IF resp.kind = "error" THEN Raise(resp.exc)
  ELSE IF resp.kind = "refused" THEN Raise("ServerLimitError")
  ELSE LET r == EtrafficParse(resp.entries)
       IN IF r.raised THEN r ELSE Ret(TupleVal(r.value))

\* EtrafficEngine.get_data, the override of etraffic.py:202-245: as
\* BaseGetDataEngine.get_data, with the except clauses Timeout, CurlError,
\* ServerLimitError, Exception.
EtrafficEngineGetData(out) ==
  IF ~out.raised THEN out
  ELSE IF out.exc \in BaseExceptionOnly THEN out
  ELSE IF HandlerReads(out.exc) \subseteq EngineAttrs("etraffic")
    THEN Ret(NoneVal)
  ELSE Raise("AttributeError")

\* _get_data of the engine on the provider's answer.
ProvGetData(eng, resp, vehicle_type) ==
  CASE eng = "checkphatnguoi" -> CheckPhatNguoiGetData(resp, vehicle_type)
    [] eng = "phatnguoi" -> PhatNguoiGetData(resp)
    [] eng = "tracuuphatnguoi" -> TraCuuPhatNguoiGetData(resp)
    [] eng = "zmio" -> ZmioGetData(resp)
    [] eng = "etraffic" -> EtrafficGetData(resp)

\* get_data of the engine on what its _get_data did.
ProvEngineGetData(eng, out) ==
  IF eng = "etraffic" THEN EtrafficEngineGetData(out)
  ELSE BaseGetData(eng, out)

\* Whether the engine object itself holds the session (it is a
\* RequestSessionHelper, or owns the request engine that is one) and closes it
\* in its __aexit__; TraCuuPhatNguoiEngine builds a request engine per call.
OwnsSession(eng) == eng # "tracuuphatnguoi"

NoResp == Resp("pending", <<>>, "none")

InitProv ==
  /\ engine \in Engines
  /\ plate_type \in {car, motorbike}
  /\ ppc = "new"
  /\ psession_ = "None"
  /\ req_sessions = <<>>
  /\ lookups = 0
  /\ presp = NoResp
  /\ praw = Pending
  /\ poutcome = Pending

\* `async with engine': __aenter__. EtrafficEngine's asks for the token on
\* the request engine's session, and the request may raise.
ProvEnter ==
  /\ UNCHANGED notProvVars
  /\ ppc = "new"
  /\ IF engine = "etraffic"
       THEN /\ psession_' = SessionUse(psession_)
            /\ \E ok \in BOOLEAN :
                 ppc' = IF ok THEN "entered" ELSE "enter_failed"
       ELSE /\ psession_' = psession_
            /\ ppc' = "entered"
  /\ UNCHANGED <<engine, plate_type, req_sessions, lookups, presp, praw,
                 poutcome>>

\* get_data is called and sends its first request on the session of the
\* engine, or of the request engine it has just built.
ProvCall ==
  /\ UNCHANGED notProvVars
  /\ ppc = "entered"
  /\ lookups < MaxLookups
  /\ IF OwnsSession(engine)
       THEN /\ psession_' = SessionUse(psession_)
            /\ req_sessions' = req_sessions
            /\ ppc' = "waiting"
       ELSE /\ psession_' = psession_
            /\ req_sessions' = Append(req_sessions, SessionUse("None"))
            /\ ppc' = "token_wait"
  /\ presp' = NoResp
  /\ praw' = Pending
  /\ poutcome' = Pending
  /\ UNCHANGED <<engine, plate_type, lookups>>

\* get_data returns or raises.
ProvFinish(resp, out) ==
  /\ presp' = resp
  /\ praw' = out
  /\ poutcome' = ProvEngineGetData(engine, out)
  /\ lookups' = lookups + 1
  /\ ppc' = "entered"
  /\ UNCHANGED <<engine, plate_type, psession_, req_sessions>>

\* _TraCuuPhatNguoiRequestEngine._get_phpsessid_and_csrf: the page with the
\* csrf token arrives, or it does not.
ProvTokenResponded ==
  /\ UNCHANGED notProvVars
  /\ ppc = "token_wait"
  /\ \E e \in {"none", "GetTokenError", "TimeoutException", "HTTPStatusError"} :
       IF e = "none"
         THEN /\ ppc' = "waiting"
              /\ UNCHANGED <<engine, plate_type, psession_, req_sessions,
                             lookups, presp, praw, poutcome>>
         ELSE ProvFinish(Resp("error", <<>>, e), Raise(e))

\* The answer to the data request arrives.
ProvResponded ==
  /\ UNCHANGED notProvVars
  /\ ppc = "waiting"
  /\ \E resp \in ProvResponses(engine) :
       ProvFinish(resp, ProvGetData(engine, resp, plate_type))

\* The `async with' block is left: __aexit__.
ProvExit ==
  /\ UNCHANGED notProvVars
  /\ ppc = "entered"
  /\ ppc' = "exited"
  /\ psession_' = (IF OwnsSession(engine) THEN SessionExit(psession_)
                   ELSE psession_)
  /\ UNCHANGED <<engine, plate_type, req_sessions, lookups, presp, praw,
                 poutcome>>

NextProv ==
  \/ ProvEnter
  \/ ProvCall
  \/ ProvTokenResponded
  \/ ProvResponded
  \/ ProvExit

IdleProv ==
  /\ engine = "phatnguoi"
  /\ plate_type = car
  /\ ppc = "new"
  /\ psession_ = "None"
  /\ req_sessions = <<>>
  /\ lookups = 0
  /\ presp = NoResp
  /\ praw = Pending
  /\ poutcome = Pending

IdleCsgt ==
  /\ retry_captcha = 3
  /\ pc = "idle"
  /\ attempt_number = 0
  /\ session_ = "None"
  /\ violation_details_set = {}
  /\ phpsessid = ""
  /\ outcome = Pending
  /\ trace = <<>>
  /\ cookies = <<>>
  /\ bodies = <<>>
  /\ pages = <<>>
  /\ created = 0
  /\ jar = NoCookie
  /\ sent = <<>>

\* ========================== lookup over several providers (SpecLookup)
\* Providers run by one lookup.
MaxProviders == 3

\* ProviderResult: Found(records), NotFound, Failed(reason).
Found(records) == [tag |-> "Found", records |-> records, reason |-> "none"]
NotFound == [tag |-> "NotFound", records |-> {}, reason |-> "none"]
Failed(reason) == [tag |-> "Failed", records |-> {}, reason |-> reason]

\* The entry the lookup reports for what an engine's get_data did: a failure
\* is captured, not thrown; the engine hands over no reason with its None.
ProviderResult(out) ==
  IF out.raised THEN Failed("Unknown")
  ELSE IF out.value.kind = "None" THEN Failed("Unknown")
  ELSE IF out.value.items = <<>> THEN NotFound
  ELSE Found(SeqToSet(out.value.items))

InitLookup ==
  /\ lpc = "idle"
  /\ providers \in {S \in SUBSET Engines : Cardinality(S) = MaxProviders}
  /\ lplate_type \in {car, motorbike}
  /\ lresp = [e \in Engines |-> NoResp]
  /\ lresults = [e \in Engines |-> Pending]

notLookupVars ==
  <<csgtVars, provVars, vehicleVars, notifVars, helperVars, callVars>>

\* lookup(plate, vehicleClass, providers): get_data of every provider is
\* started, each as a task of its own.
Lookup ==
  /\ UNCHANGED notLookupVars
  /\ lpc = "idle"
  /\ lpc' = "running"
  /\ UNCHANGED <<providers, lplate_type, lresp, lresults>>

\* One provider answers and get_data of its engine ends.
LookupProviderDone ==
  /\ UNCHANGED notLookupVars
  /\ lpc = "running"
  /\ \E e \in providers :
       /\ lresults[e] = Pending
       /\ \E resp \in ProvResponses(e) :
            /\ lresp' = [lresp EXCEPT ![e] = resp]
            /\ lresults' =
                 [lresults EXCEPT
                    ![e] = ProvEngineGetData(e, ProvGetData(e, resp,
                                                            lplate_type))]
  /\ UNCHANGED <<lpc, providers, lplate_type>>

\* Every provider is done: lookup returns the mapping.
LookupReturn ==
  /\ UNCHANGED notLookupVars
  /\ lpc = "running"
  /\ \A e \in providers : lresults[e] # Pending
  /\ lpc' = "returned"
  /\ UNCHANGED <<providers, lplate_type, lresp, lresults>>

\* The mapping lookup returns.
Aggregate == [e \in providers |-> ProviderResult(lresults[e])]

NextLookup ==
  \/ Lookup
  \/ LookupProviderDone
  \/ LookupReturn

\* ================================== get_vehicle_enum (SpecVehicle)
\* Values handed to get_vehicle_enum: the enum members, numbers, strings.
VehicleInputs ==
  {PyEnum(v) : v \in VehicleTypeEnum}
    \cup {PyInt(n) : n \in (0 - 1)..4}
    \cup {PyBool(n) : n \in 0..1}
    \cup {PyFloat(n) : n \in 0..4}
    \cup {PyStr(t) :
            t \in {"car", "motorbike", "electric_motorbike",
                   "O to", "Xe may", "Xe may dien", "1", "2", "3",
                   "", "0", "4", "01", "Car", " car", "o to", "O to con",
                   "xe may", "Xe may dien ", "electric motorbike", "truck"}}

InitVehicle ==
  /\ vpc = "called"
  /\ vin \in VehicleInputs \X VehicleInputs
  /\ vout = <<Pending, Pending>>

\* get_vehicle_enum is applied to each of the two values.
GetVehicleEnum ==
  /\ UNCHANGED <<csgtVars, provVars, lookupVars, notifVars, helperVars,
                 callVars>>
  /\ vpc = "called"
  /\ vpc' = "returned"
  /\ vout' = <<get_vehicle_enum(vin[1]), get_vehicle_enum(vin[2])>>
  /\ vin' = vin

\* ===================================== notification configs (SpecNotify)
\* Strings are sequences of characters.
DigitChars == {"0", "1", "2", "3", "4", "5", "6", "7", "8", "9"}
LetterChars ==
  { "a", "b", "c", "d", "e", "f", "g", "h", "i", "j", "k", "l", "m",
    "n", "o", "p", "q", "r", "s", "t", "u", "v", "w", "x", "y", "z",
    "A", "B", "C", "D", "E", "F", "G", "H", "I", "J", "K", "L", "M",
    "N", "O", "P", "Q", "R", "S", "T", "U", "V", "W", "X", "Y", "Z" }

\* The class [A-Za-z0-9_\-].
TokenChars == LetterChars \cup DigitChars \cup {"_", "-"}

AllIn(seq, chars) == \A i \in 1..Len(seq) : seq[i] \in chars

\* Pattern.match(value) for a pattern ^...$: `$' matches at the end of the
\* string and also just before a newline that ends it, so the body of the
\* pattern has to match one of these prefixes of value.
DollarEnds(value) ==
  {value} \cup (IF value # <<>> /\ value[Len(value)] = "\n"
                  THEN {SubSeq(value, 1, Len(value) - 1)} ELSE {})

\* [A-Za-z0-9_\-]+\.[A-Za-z0-9_\-]+\.[A-Za-z0-9_\-]+
DiscordTokenBody(value) ==
  \E i, j \in 1..Len(value) :
    /\ i > 1 /\ j > i + 1 /\ j < Len(value)
    /\ value[i] = "." /\ value[j] = "."
    /\ AllIn(SubSeq(value, 1, i - 1), TokenChars)
    /\ AllIn(SubSeq(value, i + 1, j - 1), TokenChars)
    /\ AllIn(SubSeq(value, j + 1, Len(value)), TokenChars)

\* \d{18,19}
DiscordChatIdBody(value) ==
  Len(value) \in 18..19 /\ AllIn(value, DigitChars)

\* [0-9]+:.+
TelegramTokenBody(value) ==
  \E i \in 2..(Len(value) - 1) :
    /\ value[i] = ":"
    /\ AllIn(SubSeq(value, 1, i - 1), DigitChars)
    /\ \A k \in (i + 1)..Len(value) : value[k] # "\n"

\* models/notifications/discord.py: BOT_TOKEN_PATTERN.match(value) and
\* CHAT_ID_PATTERN.match(str(value)).
DiscordBotTokenMatch(value) ==
  \E v \in DollarEnds(value) : DiscordTokenBody(v)
DiscordChatIdMatch(value) == \E v \in DollarEnds(value) : DiscordChatIdBody(v)
\* models/notifications/telegram.py: BOT_TOKEN_PATTERN.match(value).
TelegramBotTokenMatch(value) ==
  \E v \in DollarEnds(value) : TelegramTokenBody(v)

\* value.lstrip("-")
RECURSIVE LStripDash(_)
LStripDash(value) ==
  IF value # <<>> /\ Head(value) = "-" THEN LStripDash(Tail(value)) ELSE value

\* value.lstrip("-").isnumeric()
TelegramChatIdNumeric(value) ==
  LStripDash(value) # <<>> /\ AllIn(LStripDash(value), DigitChars)

\* A field validator: the value, or ValueError.
Validated(ok, value) == IF ok THEN Ret(value) ELSE Raise("ValueError")

DiscordValidateBotTokenOff(value) == Ret(value)
\* DiscordConfig._validate_bot_token
DiscordValidateBotToken(value) ==
  Validated(DiscordBotTokenMatch(value), value)
\* DiscordConfig._validate_chat_id
DiscordValidateChatId(value) == Validated(DiscordChatIdMatch(value), value)
\* TelegramConfig.validate_bot_token
TelegramValidateBotToken(value) ==
  Validated(TelegramBotTokenMatch(value), value)
\* TelegramConfig.validate_chat_id
TelegramValidateChatId(value) ==
  Validated(TelegramChatIdNumeric(value), value)

\* DiscordConfig(...) and TelegramConfig(...): the model is built when no
\* field validator raises, else the constructor raises ValidationError.
ConfigBuilt(channel, cred) ==
  IF channel = "discord"
    THEN /\ ~DiscordValidateBotToken(cred.bot_token).raised
         /\ ~DiscordValidateChatId(cred.chat_id).raised
    ELSE /\ ~TelegramValidateBotToken(cred.bot_token).raised
         /\ ~TelegramValidateChatId(cred.chat_id).raised

\* Most messages handed to one send.
MaxMessages == 2

Ones(n) == [i \in 1..n |-> "1"]

\* Field values tried on the config classes. A Discord chat_id is an int and
\* is given as str(value).
DiscordTokens ==
  { <<"a", ".", "B", ".", "7">>, <<"a", "-", ".", "_", ".", "7">>,
    <<"a", ".", "B", ".", "7", "\n">>, <<"a", ".", "B", ".", "7", "\n", "\n">>,
    <<"a", ".", "B">>, <<"a", ".", ".", "7">>, <<".", "B", ".", "7">>,
    <<"a", ".", "B", ".", "7", ".">>, <<"a", " ", ".", "B", ".", "7">>,
    <<"\n", "a", ".", "B", ".", "7">>, <<>> }
DiscordChatIds ==
  { Ones(17), Ones(18), Ones(19), Ones(20), <<"-">> \o Ones(18), <<"0">> }
TelegramTokens ==
  { <<"1", "2", ":", "a">>, <<"1", ":", "a", " ", "b">>, <<"1", ":", ":">>,
    <<"1", ":", "a", "\n">>, <<"1", ":", "a", "\n", "b">>, <<"1", ":", "\n">>,
    <<":", "a">>, <<"1", ":">>, <<"a", ":", "b">>, <<"1", "a">>, <<>> }
TelegramChatIds ==
  { <<"-", "1", "0", "0">>, <<"1", "2">>, <<"-", "-", "1">>, <<>>, <<"-">>,
    <<"1", "-">>, <<"@", "c">>, <<"1", " ">>, <<"1", "\n">> }

Cred(t, c, ty) == [bot_token |-> t, chat_id |-> c, chat_type |-> ty]

\* What the channel does with the bot's login, with the lookup of the
\* recipient and with each message.
Fate(l, f, m) == [login |-> l, fetch |-> f, msgs |-> m]
MsgFates == {"ok", "rejected", "Forbidden", "unreachable"}
Fates(channel, n) ==
  IF channel = "discord"
    THEN {Fate(l, f, m) :
            l \in {"ok", "LoginFailure", "unreachable"},
            f \in {"ok", "NotFound", "Forbidden", "unreachable"},
            m \in [1..n -> MsgFates]}
    ELSE {Fate("ok", "ok", m) : m \in [1..n -> MsgFates \cup {"timeout"}]}

\* Messages sent one after the other until one fails: how many were handed to
\* the channel.
RECURSIVE SentUntilFailure(_, _)
SentUntilFailure(m, i) ==
  IF i > Len(m) THEN Len(m)
  ELSE IF m[i] # "ok" THEN i
  ELSE SentUntilFailure(m, i + 1)

\* What a send did: what its caller got, the messages handed to the channel.
Sent(out, attempted) == [result |-> out, attempted |-> attempted]

\* _DiscordCoreEngine._send_user: every exception is logged, none leaves.
DiscordSendUser(fate) ==
  IF fate.fetch # "ok" THEN Sent(Ret(NoneVal), 0)
  ELSE Sent(Ret(NoneVal), SentUntilFailure(fate.msgs, 1))

\* _DiscordCoreEngine._send_channel: every exception is logged, none leaves;
\* no channel object is an instance of all of TextChannel, GroupChannel and
\* DMChannel, so the check at discord.py:45-53 returns before any message.
DiscordSendChannel(fate) == Sent(Ret(NoneVal), 0)

\* DiscordEngine.send: client.start raises when the login fails; on_ready
\* sends and closes the client, start returns.
DiscordSend(cfg, fate) ==
  IF fate.login # "ok" THEN Sent(Raise(fate.login), 0)
  ELSE IF cfg.chat_type = "user" THEN DiscordSendUser(fate)
  ELSE DiscordSendChannel(fate)

\* TelegramEngine._send_message: the exception of the request or of
\* raise_for_status is logged and raised again.
TelegramSendMessage(f) ==
  CASE f = "ok" -> Ret(NoneVal)
    [] f \in {"rejected", "Forbidden"} -> Raise("HTTPStatusError")
    [] f = "unreachable" -> Raise("ConnectError")
    [] f = "timeout" -> Raise("TimeoutException")

InitNotif ==
  /\ nchannel \in {"discord", "telegram"}
  /\ ncred \in
       IF nchannel = "discord"
         THEN {Cred(t, c, ty) : t \in DiscordTokens, c \in DiscordChatIds,
                                ty \in {"user", "channel"}}
         ELSE {Cred(t, c, "user") : t \in TelegramTokens,
                                    c \in TelegramChatIds}
  /\ npc = "new"
  /\ nmessages = 0
  /\ nfate = Fate("ok", "ok", <<>>)
  /\ nattempted = 0
  /\ ndelivered = 0
  /\ nresult = Pending
  /\ ninflight = {}

notNotifVars ==
  <<csgtVars, provVars, lookupVars, vehicleVars, helperVars, callVars>>

\* The config object is constructed from the field values.
NotifyConfig ==
  /\ UNCHANGED notNotifVars
  /\ npc = "new"
  /\ npc' = (IF ConfigBuilt(nchannel, ncred) THEN "built" ELSE "rejected")
  /\ UNCHANGED <<nchannel, ncred, nmessages, nfate, nattempted, ndelivered,
                 nresult, ninflight>>

\* send(config, messages) is called. TelegramEngine.send hands one
\* _send_message per message to asyncio.gather: each runs as a task up to the
\* await of its request.
NotifySend ==
  /\ UNCHANGED notNotifVars
  /\ npc = "built"
  /\ npc' = "sending"
  /\ \E n \in 1..MaxMessages :
       /\ nmessages' = n
       /\ IF nchannel = "telegram"
            THEN /\ ninflight' = 1..n
                 /\ nattempted' = n
                 /\ nfate' = Fate("ok", "ok", [i \in 1..n |-> "pending"])
            ELSE UNCHANGED <<ninflight, nattempted, nfate>>
  /\ UNCHANGED <<nchannel, ncred, ndelivered, nresult>>

\* Discord answers and send ends.
NotifyChannel ==
  /\ UNCHANGED notNotifVars
  /\ npc = "sending"
  /\ nchannel = "discord"
  /\ \E fate \in Fates(nchannel, nmessages) :
       LET r == DiscordSend(ncred, fate)
       IN /\ nfate' = fate
          /\ nresult' = r.result
          /\ nattempted' = r.attempted
          /\ ndelivered' =
               Cardinality({i \in 1..r.attempted : fate.msgs[i] = "ok"})
  /\ npc' = "done"
  /\ UNCHANGED <<nchannel, ncred, nmessages, ninflight>>

\* The request of Telegram message i ends, in whatever order the requests
\* end. asyncio.gather (telegram.py:65-73, no return_exceptions) hands the
\* first exception of a _send_message to the caller of send at once and
\* leaves the other tasks running; it returns when every task has returned.
\* A task that ends after send did ends on its own.
TelegramResponded ==
  /\ UNCHANGED notNotifVars
  /\ nchannel = "telegram"
  /\ npc \in {"sending", "done", "exited"}
  /\ \E i \in ninflight :
       \E f \in Fates(nchannel, 1) :
         LET r == TelegramSendMessage(f.msgs[1]) IN
         /\ nfate' = [nfate EXCEPT !.msgs[i] = f.msgs[1]]
         /\ ninflight' = ninflight \ {i}
         /\ ndelivered' = (IF r.raised THEN ndelivered ELSE ndelivered + 1)
         /\ IF npc # "sending" THEN UNCHANGED <<npc, nresult>>
            ELSE IF r.raised THEN npc' = "done" /\ nresult' = r
            ELSE IF ninflight' = {} THEN npc' = "done" /\ nresult' = r
            ELSE UNCHANGED <<npc, nresult>>
  /\ UNCHANGED <<nchannel, ncred, nmessages, nattempted>>

\* send has ended and the `async with' block of the engine is left:
\* TelegramEngine.__aexit__ closes the session.
NotifyExit ==
  /\ UNCHANGED notNotifVars
  /\ npc = "done"
  /\ npc' = "exited"
  /\ UNCHANGED <<nchannel, ncred, nmessages, nfate, nattempted, ndelivered,
                 nresult, ninflight>>

NextNotify ==
  \/ NotifyConfig
  \/ NotifySend
  \/ NotifyChannel
  \/ TelegramResponded
  \/ NotifyExit

\* ============================ one RequestSessionHelper (SpecHelper)
\* Most `async with' blocks entered on the instance, most requests made.
MaxEnters == 3
MaxRequests == 3

InitHelper ==
  /\ helper \in {"httpx", "aiohttp"}
  /\ hdepth = 0
  /\ h_session_ = "None"
  /\ hcreated = 0
  /\ hcloses = 0
  /\ hentries = 0
  /\ hrequests = 0
  /\ hfailed = 0

notHelperVars ==
  <<csgtVars, provVars, lookupVars, vehicleVars, notifVars, callVars>>

\* __aenter__: returns self.
HelperEnter ==
  /\ UNCHANGED notHelperVars
  /\ hentries < MaxEnters
  /\ hentries' = hentries + 1
  /\ hdepth' = hdepth + 1
  /\ UNCHANGED <<helper, h_session_, hcreated, hcloses, hrequests, hfailed>>

\* A lookup makes a request through the _session property: the client is
\* built when _session_ is None; a request on a closed client fails.
HelperRequest ==
  /\ UNCHANGED notHelperVars
  /\ hrequests < MaxRequests
  /\ hrequests' = hrequests + 1
  /\ h_session_' = SessionUse(h_session_)
  /\ hcreated' = (IF h_session_ = "None" THEN hcreated + 1 ELSE hcreated)
  /\ hfailed' = (IF h_session_ = "closed" THEN hfailed + 1 ELSE hfailed)
  /\ UNCHANGED <<helper, hdepth, hcloses, hentries>>

\* __aexit__: close is awaited on the client when _session_ is not None.
HelperExit ==
  /\ UNCHANGED notHelperVars
  /\ hdepth > 0
  /\ hdepth' = hdepth - 1
  /\ h_session_' = SessionExit(h_session_)
  /\ hcloses' = (IF h_session_ = "None" THEN hcloses ELSE hcloses + 1)
  /\ UNCHANGED <<helper, hcreated, hentries, hrequests, hfailed>>

NextHelper ==
  \/ HelperEnter
  \/ HelperRequest
  \/ HelperExit

\* ============ concurrent get_data calls on one engine instance (SpecCalls)
MaxCalls == 2

Calls == 1..MaxCalls

\* The engines whose parser collects records in a set.
CallEngines == {"csgt", "checkphatnguoi", "phatnguoi", "zmio"}

\* Every call asks for a plate of its own.
PlateOf(c) == <<"30A-1", "30A-2", "30A-3", "30A-4">>[c]

\* What the provider lists for the plate of call c.
CallEntries(c) ==
  { Entry(PlateOf(c), "Xe may", "Da xu phat", FALSE),
    Entry(PlateOf(c), "O to", "Chua xu phat", FALSE) }

CallResponses(eng, c) ==
  {Resp("listing", es, "none") :
     es \in UNION {[1..n -> CallEntries(c)] : n \in 0..MaxEntries}}
    \cup (IF eng = "csgt"
            THEN {Resp("error", <<>>, e) : e \in RequestErrors}
                   \cup {Resp("refused", <<>>, "none")}
            ELSE {r \in ProvResponses(eng) : r.kind # "listing"})

ParseEngineShared(built) == 1

\* The parse engine a call works on: _get_data constructs one of its own
\* (_CsgtCoreEngine, _CheckPhatNguoiParseEngine, _PhatNguoiParseEngine,
\* _ZmioParseEngine), whose __init__ sets _violation_details_set = set().
ParseEngineNew(built) == Len(built) + 1

\* The sets after a parse engine was taken for a call.
WithParseEngine(built, i) ==
  IF i > Len(built) THEN Append(built, {}) ELSE built

\* Whether _get_data constructs the engine before its first await.
BuildsAtCall(eng) == eng = "csgt"

\* _get_data of the engine on the answer, the records being collected in
\* details_set, the set of the call's parse engine.
CallGetData(eng, resp, vehicle_type, details_set) ==
  IF eng = "csgt"
    THEN IF resp.kind = "error" THEN Raise(resp.exc)
         ELSE CsgtParseHtml(Page(resp.kind = "listing", resp.entries),
                            details_set)
  ELSE IF resp.kind # "listing" \/ (eng = "phatnguoi" /\ resp.entries = <<>>)
    THEN ProvGetData(eng, resp, vehicle_type)
  ELSE LET r ==
         CASE eng = "checkphatnguoi" ->
                CheckPhatNguoiParseViolations(resp.entries, vehicle_type,
                                              details_set)
           [] eng = "phatnguoi" ->
                PhatNguoiParseViolations(resp.entries, details_set)
           [] eng = "zmio" -> ZmioParseViolations(resp.entries, details_set)
       IN IF r.raised THEN r ELSE Ret(TupleVal(SetToSeq(r.value)))

InitCalls ==
  /\ cengine \in CallEngines
  /\ ctype \in [Calls -> {car, motorbike}]
  /\ cpc = [c \in Calls |-> "new"]
  /\ cresp = [c \in Calls |-> NoResp]
  /\ parse_engines = <<>>
  /\ cowner = [c \in Calls |-> 0]
  /\ cout = [c \in Calls |-> Pending]

notCallVars ==
  <<csgtVars, provVars, lookupVars, vehicleVars, notifVars, helperVars>>

\* get_data(plate_info) is called for call c and runs to the await of its
\* request.
CallStart(c) ==
  /\ UNCHANGED notCallVars
  /\ cpc[c] = "new"
  /\ cpc' = [cpc EXCEPT ![c] = "waiting"]
  /\ IF BuildsAtCall(cengine)
       THEN LET i == ParseEngineNew(parse_engines) IN
            /\ parse_engines' = WithParseEngine(parse_engines, i)
            /\ cowner' = [cowner EXCEPT ![c] = i]
       ELSE UNCHANGED <<parse_engines, cowner>>
  /\ UNCHANGED <<cengine, ctype, cresp, cout>>

\* The answer to call c's request arrives; the call parses it on its parse
\* engine and get_data returns.
CallResponded(c) ==
  /\ UNCHANGED notCallVars
  /\ cpc[c] = "waiting"
  /\ \E resp \in CallResponses(cengine, c) :
       LET i == IF BuildsAtCall(cengine) THEN cowner[c]
                ELSE ParseEngineNew(parse_engines)
           built == WithParseEngine(parse_engines, i)
           out == CallGetData(cengine, resp, ctype[c], built[i])
       IN
       /\ cresp' = [cresp EXCEPT ![c] = resp]
       /\ cowner' = [cowner EXCEPT ![c] = i]
       /\ parse_engines' =
            (IF out.raised \/ out.value.kind = "None" THEN built
             ELSE [built EXCEPT ![i] = SeqToSet(out.value.items)])
       /\ cout' = [cout EXCEPT ![c] = BaseGetData(cengine, out)]
       /\ cpc' = [cpc EXCEPT ![c] = "done"]
  /\ UNCHANGED <<cengine, ctype>>

NextCalls == \E c \in Calls : CallStart(c) \/ CallResponded(c)

IdleLookup ==
  /\ lpc = "idle"
  /\ providers = {}
  /\ lplate_type = car
  /\ lresp = [e \in Engines |-> NoResp]
  /\ lresults = [e \in Engines |-> Pending]

IdleVehicle ==
  /\ vpc = "called"
  /\ vin = <<PyInt(1), PyInt(1)>>
  /\ vout = <<Pending, Pending>>

IdleNotif ==
  /\ nchannel = "telegram"
  /\ ncred = [bot_token |-> <<>>, chat_id |-> <<>>, chat_type |-> "user"]
  /\ npc = "new"
  /\ nmessages = 0
  /\ nfate = [login |-> "ok", fetch |-> "ok", msgs |-> <<>>]
  /\ nattempted = 0
  /\ ndelivered = 0
  /\ nresult = Pending
  /\ ninflight = {}

IdleHelper ==
  /\ helper = "httpx"
  /\ hdepth = 0
  /\ h_session_ = "None"
  /\ hcreated = 0
  /\ hcloses = 0
  /\ hentries = 0
  /\ hrequests = 0
  /\ hfailed = 0

IdleCalls ==
  /\ cengine = "csgt"
  /\ ctype = [c \in Calls |-> car]
  /\ cpc = [c \in Calls |-> "new"]
  /\ cresp = [c \in Calls |-> NoResp]
  /\ parse_engines = <<>>
  /\ cowner = [c \in Calls |-> 0]
  /\ cout = [c \in Calls |-> Pending]

IdleRest == IdleLookup /\ IdleVehicle /\ IdleNotif /\ IdleHelper /\ IdleCalls

vars == <<csgtVars, provVars, restVars>>

\* One CSGT lookup.
Init == InitCsgt /\ IdleProv /\ IdleRest
Next == NextCsgt
Spec == Init /\ [][Next]_vars

\* The same lookup with its scheduling: every request carries the client's
\* timeout, so a suspended await is resumed with a response or an error, and
\* asyncio.sleep between two attempts returns.
SpecFair == Spec /\ WF_vars(Next)

\* Lookups on one engine of the other providers.
InitP == InitProv /\ IdleCsgt /\ IdleRest
SpecProv == InitP /\ [][NextProv]_vars

\* Several get_data calls on one engine instance, for different plates.
InitK ==
  /\ InitCalls /\ IdleCsgt /\ IdleProv /\ IdleLookup /\ IdleVehicle
  /\ IdleNotif /\ IdleHelper
SpecCalls == InitK /\ [][NextCalls]_vars

\* A CsgtEngine lookup and a TraCuuPhatNguoiEngine lookup run as two tasks of
\* one event loop: a step of either runs from one await to the next, and the
\* loop runs one step at a time.
InitC == IdleCsgt /\ InitProv /\ engine = "tracuuphatnguoi" /\ IdleRest
NextC == NextCsgt \/ NextProv
SpecConc == InitC /\ [][NextC]_vars

\* One lookup over several providers.
InitL ==
  /\ InitLookup /\ IdleCsgt /\ IdleProv /\ IdleVehicle /\ IdleNotif
  /\ IdleHelper /\ IdleCalls
SpecLookup == InitL /\ [][NextLookup]_vars

\* Calls of get_vehicle_enum.
InitV ==
  /\ InitVehicle /\ IdleCsgt /\ IdleProv /\ IdleLookup /\ IdleNotif
  /\ IdleHelper /\ IdleCalls
SpecVehicle == InitV /\ [][GetVehicleEnum]_vars

\* One notification config and one send with it.
InitN ==
  /\ InitNotif /\ IdleCsgt /\ IdleProv /\ IdleLookup /\ IdleVehicle
  /\ IdleHelper /\ IdleCalls
SpecNotify == InitN /\ [][NextNotify]_vars

\* Entries, requests and exits on one RequestSessionHelper.
InitH ==
  /\ InitHelper /\ IdleCsgt /\ IdleProv /\ IdleLookup /\ IdleVehicle
  /\ IdleNotif /\ IdleCalls
SpecHelper == InitH /\ [][NextHelper]_vars

\* ================================================== claims on the CSGT lookup
\* What the provider means by its answers, independently of the engine: a
\* submission is rejected when its body is "404" up to surrounding whitespace.
Rejected(b) == Strip(b) = Body404
AllRejected(n) == \A i \in 1..n : Rejected(bodies[i])

Ops(S) == {i \in 1..Len(trace) : trace[i].op \in S}
ErrorOps == {"captcha_err", "ocr_err", "submit_err", "fetch_err"}

\* The provider answered every request so far, each captcha response with a
\* token, and the lookup was not cancelled.
Answered ==
  /\ Ops(ErrorOps \cup {"cancel"}) = {}
  /\ \A i \in 1..Len(cookies) : cookies[i].present /\ cookies[i].value # ""

\* A page the parser accepts: it has the result div and every complete block
\* names a known vehicle type.
Parseable(page) ==
  /\ page.div
  /\ \A i \in 1..Len(page.entries) :
       page.entries[i].missing
         \/ page.entries[i].type \in {"O to", "Xe may", "Xe may dien"}

\* The records of a page: one per block whose fields are all there.
RecordsOf(page) ==
  {ViolationDetail(page.entries[i]) :
     i \in {j \in 1..Len(page.entries) : ~page.entries[j].missing}}

\* C1: with retry_captcha = N >= 1, N-1 rejected submissions and an accepted
\* N-th one, the lookup does not end before the accepted attempt, fetches the
\* data once, in attempt N, and returns exactly the records of that page.
C1_SuccessFromAcceptedAttempt ==
  (retry_captcha >= 1 /\ Answered) =>
    /\ (Len(bodies) < retry_captcha /\ AllRejected(Len(bodies)))
         => pc # "done"
    /\ (/\ pc = "done"
        /\ Len(bodies) = retry_captcha
        /\ AllRejected(retry_captcha - 1)
        /\ ~Rejected(bodies[retry_captcha])
        /\ Len(pages) = 1 /\ Parseable(pages[1]))
         => /\ ~outcome.raised
            /\ outcome.value.kind = "tuple"
            /\ SeqToSet(outcome.value.items) = RecordsOf(pages[1])
            /\ Cardinality(Ops({"fetch_req"})) = 1
            /\ \A i \in Ops({"fetch_req"}) : trace[i].att = retry_captcha

C1_Witness ==
  /\ retry_captcha = 3 /\ pc = "done" /\ Answered
  /\ Len(bodies) = 3 /\ AllRejected(2) /\ ~Rejected(bodies[3])
  /\ Len(pages) = 1 /\ Parseable(pages[1])
  /\ Cardinality(RecordsOf(pages[1])) = 2

\* C2: with retry_captcha = N >= 1 and N rejected submissions in a row the
\* lookup has ended with the failure result None after exactly N
\* submissions, and no data fetch was ever issued.
C2_ExhaustedAfterNRejections ==
  (retry_captcha >= 1 /\ Len(bodies) >= retry_captcha
     /\ AllRejected(retry_captcha)) =>
    /\ pc = "done"
    /\ outcome = Ret(NoneVal)
    /\ Len(bodies) = retry_captcha
    /\ Cardinality(Ops({"submit_req"})) = retry_captcha
    /\ Ops({"fetch_req"}) = {}

C2_Witness ==
  /\ retry_captcha = 2 /\ Len(bodies) = 2 /\ AllRejected(2) /\ pc = "done"

\* C3: a captcha response without a PHPSESSID token ends the lookup at once
\* with the failure result: no OCR, submission or data fetch of that attempt
\* and no later attempt follow it.
C3_MissingTokenIsFatal ==
  \A a \in 1..Len(cookies) :
    (~cookies[a].present \/ cookies[a].value = "") =>
      /\ pc = "done"
      /\ outcome = Ret(NoneVal)
      /\ a = Len(cookies)
      /\ \A i \in 1..Len(trace) :
           /\ trace[i].att <= a
           /\ trace[i].att = a =>
                trace[i].op \in {"captcha_req", "captcha_resp", "close"}

C3_Witness ==
  /\ Len(cookies) = 2 /\ cookies[2] = Cookie(TRUE, "") /\ retry_captcha = 3
  /\ pc = "done"

\* The lookup ended because every attempt allowed by retry_captcha was
\* rejected.
Exhausted ==
  /\ pc = "done" /\ Answered /\ pages = <<>>
  /\ bodies # <<>> /\ AllRejected(Len(bodies))

\* C4: after exhaustion CsgtEngine.get_data gives the failure result None,
\* which is not the empty tuple returned when the page lists no violation.
C4_ExhaustionIsNotEmptyResult ==
  /\ Exhausted =>
       /\ ~outcome.raised
       /\ outcome.value.kind = "None"
       /\ outcome.value # EmptyTuple
  /\ (pc = "done" /\ Answered /\ Len(pages) = 1 /\ Parseable(pages[1])
        /\ RecordsOf(pages[1]) = {})
       => outcome = Ret(EmptyTuple)

C4_Witness == Exhausted /\ retry_captcha = 3 /\ Len(bodies) = 3

\* C8: an attempt after the first starts only right after a rejected
\* submission of the attempt before it; a timeout or network error of any of
\* the three requests ends the lookup with the failure result, and nothing
\* but the session's close follows it.
C8_OnlyRejectionIsRetried ==
  /\ \A i \in Ops({"captcha_req"}) :
       trace[i].att > 1 =>
         /\ trace[i - 1] = Ev("submit_resp", trace[i].att - 1)
         /\ Rejected(bodies[trace[i].att - 1])
  /\ \A i \in Ops(ErrorOps) :
       /\ pc = "done"
       /\ outcome = Ret(NoneVal)
       /\ \A j \in (i + 1)..Len(trace) : trace[j].op = "close"

C8_Witness ==
  /\ retry_captcha = 3 /\ attempt_number = 2 /\ pc = "done"
  /\ Ops({"submit_err"}) # {}

\* C10: once the lookup is cancelled while suspended, no step of the attempt
\* and no new attempt follow, the session is closed, and the lookup ends
\* with the cancellation itself (it is not retried and not turned into a
\* result).
C10_CancellationIsTerminal ==
  \A i \in Ops({"cancel"}) :
    /\ pc = "done"
    /\ session_ = "closed"
    /\ outcome = Raise("CancelledError")
    /\ \A j \in (i + 1)..Len(trace) : trace[j].op = "close"

C10_Witness ==
  /\ retry_captcha = 3 /\ attempt_number = 2 /\ Len(trace) >= 2
  /\ trace[Len(trace) - 1] = Ev("cancel", 2)
  /\ trace[Len(trace) - 2].op = "submit_req"

\* The places of `sent' that hold a request of one of the kinds S.
Reqs(S) == {i \in 1..Len(sent) : sent[i].op \in S}

\* C16: a request of an attempt after the first is sent on a client that no
\* earlier attempt used; its captcha request carries no cookie and its
\* submission carries no token of an earlier attempt; no two submissions
\* carry the same token.
C16_RetryStartsCleanSession ==
  /\ \A i \in Reqs({"captcha_req", "submit_req"}) :
       sent[i].att > 1 =>
         /\ \A j \in 1..Len(sent) :
              sent[j].att < sent[i].att => sent[j].client # sent[i].client
         /\ sent[i].op = "captcha_req" => sent[i].cookie = NoCookie
         /\ \A a \in 1..(sent[i].att - 1) : sent[i].cookie # cookies[a]
  /\ \A i, j \in Reqs({"submit_req"}) :
       sent[i].cookie = sent[j].cookie => i = j

\* The places of the trace that hold the step o of attempt a.
Steps(o, a) == {i \in 1..Len(trace) : trace[i] = Ev(o, a)}

\* C17: a submission response whose body is "404" up to surrounding
\* whitespace makes no data fetch of its attempt, its page never reaches the
\* parser, and it is a retry trigger (the lookup goes on while attempts are
\* left); any other body, the empty one too, is followed at once by the one
\* data fetch of its attempt.
C17_RejectedIffBodyIs404 ==
  \A i \in Ops({"submit_resp"}) :
    LET a == trace[i].att IN
    IF Rejected(bodies[a])
      THEN /\ Steps("fetch_req", a) = {}
           /\ Steps("fetch_resp", a) = {}
           /\ i < Len(trace) =>
                trace[i + 1].op \in {"captcha_req", "cancel", "close"}
           /\ a < retry_captcha =>
                ~(i < Len(trace) /\ trace[i + 1].op = "close")
                  /\ (i = Len(trace) => pc = "retry_sleep")
      ELSE /\ i < Len(trace) /\ trace[i + 1] = Ev("fetch_req", a)
           /\ Cardinality(Steps("fetch_req", a)) = 1

C17_Witness ==
  /\ Len(bodies) = 2
  /\ bodies[1] = <<" ", "4", "0", "4", "\n">> /\ bodies[2] = <<>>
  /\ Steps("fetch_req", 1) = {} /\ Steps("fetch_req", 2) # {}

\* What may follow each request in the trace.
AnswerOf ==
  [captcha_req |-> {"captcha_resp", "captcha_err", "cancel"},
   submit_req |-> {"submit_resp", "submit_err", "cancel"},
   fetch_req |-> {"fetch_resp", "fetch_err", "cancel"}]

\* C18: a submission comes after the captcha request and the captcha
\* response of its own attempt, and that response carried a token; a data
\* fetch comes after the submission of its own attempt and its response,
\* which was not a rejection; and the step after a request is the end of
\* that request, never another request.
C18_RequestsAreCausal ==
  /\ \A i \in Ops({"submit_req"}) :
       LET a == trace[i].att IN
       \E j, k \in 1..(i - 1) :
         /\ j < k
         /\ trace[j] = Ev("captcha_req", a)
         /\ trace[k] = Ev("captcha_resp", a)
         /\ cookies[a].present /\ cookies[a].value # ""
  /\ \A i \in Ops({"fetch_req"}) :
       LET a == trace[i].att IN
       \E j, k \in 1..(i - 1) :
         /\ j < k
         /\ trace[j] = Ev("submit_req", a)
         /\ trace[k] = Ev("submit_resp", a)
         /\ ~Rejected(bodies[a])
  /\ \A i \in Ops({"captcha_req", "submit_req", "fetch_req"}) :
       i < Len(trace) =>
         /\ trace[i + 1].op \in AnswerOf[trace[i].op]
         /\ trace[i + 1].att = trace[i].att

C18_Witness ==
  /\ attempt_number = 2 /\ pc = "fetch_wait"
  /\ Steps("submit_req", 1) # {} /\ Steps("fetch_req", 2) # {}

\* C19: a data fetch carries the token its own attempt got with its captcha
\* and submitted with its answer, and no token of an earlier attempt.
C19_FetchUsesOwnToken ==
  \A i \in Reqs({"fetch_req"}) :
    LET a == sent[i].att IN
    /\ sent[i].cookie.present /\ sent[i].cookie.value # ""
    /\ sent[i].cookie = cookies[a]
    /\ \E j \in Reqs({"submit_req"}) :
         j < i /\ sent[j].att = a /\ sent[j].cookie = sent[i].cookie
    /\ \A b \in 1..(a - 1) : sent[i].cookie # cookies[b]

C19_Witness ==
  /\ attempt_number = 2
  /\ \E i \in Reqs({"fetch_req"}) :
       sent[i].att = 2 /\ sent[i].cookie = Cookie(TRUE, Token(2))

\* C21: when CsgtEngine.get_data has returned, on whatever path (records,
\* missing token, exhausted retries, an exception of a request or of the
\* parser, cancellation), the one session the lookup created is closed, and
\* closing it was the last thing the lookup did.
C21_SessionClosedOnEveryExit ==
  pc = "done" =>
    /\ created = 1
    /\ session_ = "closed"
    /\ Ops({"close"}) = {Len(trace)}

C21_Witness ==
  /\ pc = "done" /\ session_ = "closed"
  /\ Ops({"fetch_err"}) # {} /\ attempt_number = 2

\* C26: for every retry_captcha, zero and negative included, a lookup that
\* was started sends at least one and at most max(1, retry_captcha) captcha
\* requests, and it comes to an end.
C26_BoundedCaptchaRequests ==
  /\ [](pc # "idle" =>
          /\ Cardinality(Ops({"captcha_req"})) >= 1
          /\ Cardinality(Ops({"captcha_req"})) <=
               (IF retry_captcha > 1 THEN retry_captcha ELSE 1))
  /\ <>(pc = "done")

C26_Witness ==
  /\ pc = "done" /\ retry_captcha < 1
  /\ Cardinality(Ops({"captcha_req"})) = 1
  /\ Ops({"submit_resp"}) # {} /\ AllRejected(Len(bodies))

\* ================================================ claims on concurrent tasks
\* Events the lookup's current step adds to its trace.
NewOps == {trace'[i].op : i \in (Len(trace) + 1)..Len(trace')}

\* C22: the OCR is a suspension point of the CSGT lookup: while another
\* lookup is waiting to be resumed, the step that takes the captcha response
\* hands the image off and ends, so the other lookup can be scheduled before
\* the OCR is over; the OCR's end belongs to a later step.
C22_OcrIsSuspensionPoint ==
  [][(ppc \in {"token_wait", "waiting"} /\ "captcha_resp" \in NewOps)
       => "ocr" \notin NewOps]_vars

\* C23: whatever the interleaving of the calls made on one engine instance,
\* the records a call returns were all parsed from the entries of its own
\* response, and none of them is a record of another call's plate.
C23_RecordsFromOwnResponse ==
  \A c \in Calls :
    (cpc[c] = "done" /\ ~cout[c].raised /\ cout[c].value.kind = "tuple") =>
      /\ SeqToSet(cout[c].value.items) \subseteq
           {ViolationDetail(cresp[c].entries[k]) :
              k \in 1..Len(cresp[c].entries)}
      /\ \A rec \in SeqToSet(cout[c].value.items) : rec.plate = PlateOf(c)

\* Call 2 has returned records while call 1, already started with its own
\* core engine, is still waiting for its answer.
C23_Witness ==
  /\ cengine = "csgt" /\ Len(parse_engines) = 2
  /\ cpc[1] = "waiting" /\ cowner[1] = 1
  /\ cpc[2] = "done" /\ cout[2].value.kind = "tuple"
  /\ Len(cout[2].value.items) = 2

\* ============================================ claims on the other engines
\* A get_data call has finished.
Looked == lookups > 0 /\ ppc \in {"entered", "exited"}

\* C5: on the engines that use BaseGetDataEngine.get_data, whatever
\* exception _get_data raises, get_data returns the failure result None and
\* raises nothing.
C5_BaseGetDataNeverRaises ==
  (engine # "etraffic" /\ Looked /\ praw.raised) =>
    /\ ~poutcome.raised
    /\ poutcome = Ret(NoneVal)

C5_Witness ==
  /\ engine = "zmio" /\ Looked /\ praw = Raise("KeyError")
  /\ poutcome = Ret(NoneVal)

\* C6: when the data request of EtrafficEngine times out,
\* get_data returns the failure result and does not raise.
C6_EtrafficTimeoutReturnsFailure ==
  (engine = "etraffic" /\ Looked /\ praw = Raise("Timeout")) =>
    poutcome = Ret(NoneVal)

\* The provider's answer says that the plate has no violation: its own
\* marker, or a listing without any block.
ReportsNoViolation(resp) ==
  \/ resp.kind = "none"
  \/ resp.kind = "listing" /\ resp.entries = <<>>

\* The lookup failed: the request raised, or the provider refused.
ReportsFailure(resp) == resp.kind \in {"error", "refused", "falsy"}

\* C7: on every engine a "no violation" answer gives the empty
\* tuple, and every failure gives something else.
C7_NotFoundIsEmptyTuple ==
  Looked =>
    /\ ReportsNoViolation(presp) => poutcome = Ret(EmptyTuple)
    /\ ReportsFailure(presp) => poutcome # Ret(EmptyTuple)

\* The entries of the last answer whose vehicle type is the known type t.
EntriesOfType(t) ==
  {e \in SeqToSet(presp.entries) :
     get_vehicle_enum(PyStr(e.type)) = Ret(t)}

\* C24: CheckPhatNguoi drops the entries of a vehicle class other than the
\* requested one without failing the lookup: when every entry of the data
\* names a vehicle class and those of the requested class are complete, the
\* result is the tuple of exactly the records of the requested class; and any
\* tuple returned holds records of the requested class only.
C24_OtherClassDropped ==
  (engine = "checkphatnguoi" /\ Looked /\ presp.kind = "listing") =>
    /\ ( (\A e \in SeqToSet(presp.entries) :
             ~get_vehicle_enum(PyStr(e.type)).raised)
          /\ (\A f \in EntriesOfType(plate_type) : ~f.missing) )
         => /\ ~poutcome.raised /\ poutcome.value.kind = "tuple"
            /\ SeqToSet(poutcome.value.items) =
                 {ViolationDetail(g) : g \in EntriesOfType(plate_type)}
    /\ (~poutcome.raised /\ poutcome.value.kind = "tuple")
         => \A rec \in SeqToSet(poutcome.value.items) : rec.type = plate_type

C24_Witness ==
  /\ engine = "checkphatnguoi" /\ Looked /\ plate_type = motorbike
  /\ presp = Resp("listing", <<Entry("30A-2", "O to", "Chua xu phat", FALSE),
                               Entry("30A-1", "Xe may", "Da xu phat", FALSE)>>,
                  "none")
  /\ poutcome.value.kind = "tuple" /\ Len(poutcome.value.items) = 1

\* C25: on PhatNguoi and TraCuuPhatNguoi, a listing with an entry of which a
\* mandatory field cannot be located makes the lookup fail; no tuple of
\* records comes back without that entry.
C25_MissingFieldFailsLookup ==
  ( /\ engine \in {"phatnguoi", "tracuuphatnguoi"} /\ Looked
    /\ presp.kind = "listing"
    /\ \E e \in SeqToSet(presp.entries) : e.missing )
    => (~poutcome.raised /\ poutcome.value.kind = "None")

\* C28: when the token request made by EtrafficEngine.__aenter__ raises, the
\* session created for that request does not stay open.
C28_FailedEntryClosesSession ==
  (engine = "etraffic" /\ ppc = "enter_failed") => psession_ # "open"

\* C9: once the engine's context has exited, every session a
\* lookup created is closed.
C9_EverySessionClosed ==
  ppc = "exited" =>
    /\ psession_ # "open"
    /\ \A i \in 1..Len(req_sessions) : req_sessions[i] = "closed"

\* C12: the records one lookup returns are unique by value: no two places of
\* the returned tuple hold records with the same field values.
C12_RecordsAreUnique ==
  (Looked /\ ~poutcome.raised /\ poutcome.value.kind = "tuple") =>
    \A i, j \in 1..Len(poutcome.value.items) :
      poutcome.value.items[i] = poutcome.value.items[j] => i = j

\* ===================================== claims on the lookup over providers
TimedOut(resp) ==
  resp.kind = "error"
    /\ resp.exc \in {"TimeoutException", "Timeout", "TimeoutError"}

\* The scene of the claim: one provider timed out, one reported no violation,
\* one listed two distinct records.
ThreeProviderScene ==
  /\ lpc = "returned"
  /\ \E t, n, f \in providers :
       /\ TimedOut(lresp[t])
       /\ ReportsNoViolation(lresp[n])
       /\ lresults[f].value.kind = "tuple"
       /\ Cardinality(SeqToSet(lresults[f].value.items)) = 2

\* C11: in that scene the lookup has returned a mapping with three entries,
\* one per provider, and the entry of the provider that timed out is
\* Failed(Timeout), a value neither of the other two providers gets.
C11_TimeoutIsLabelled ==
  ThreeProviderScene =>
    /\ Cardinality(DOMAIN Aggregate) = 3
    /\ \A t \in providers :
         TimedOut(lresp[t]) =>
           /\ Aggregate[t] = Failed("Timeout")
           /\ \A o \in providers \ {t} : Aggregate[o] # Aggregate[t]

\* ============================================= claims on get_vehicle_enum
\* The accepted representations of each vehicle class: the enum member, the
\* numeric code (as a number, or written out in digits), the English tag and
\* the localized display string.
Representations ==
  [v \in VehicleTypeEnum |->
     {PyEnum(v), PyInt(v), PyFloat(v)}
       \cup (IF v = 1 THEN {PyBool(1)} ELSE {})
       \cup {PyStr(<<"car", "motorbike", "electric_motorbike">>[v]),
              PyStr(<<"O to", "Xe may", "Xe may dien">>[v]),
              PyStr(<<"1", "2", "3">>[v])}]

Accepted == UNION {Representations[v] : v \in VehicleTypeEnum}

ChannelRefused ==
  \/ nfate.login # "ok"
  \/ nchannel = "discord" /\ nfate.login = "ok" /\ nfate.fetch # "ok"
  \/ \E i \in 1..nattempted : nfate.msgs[i] # "ok"

\* C14: when the channel rejects a message, cannot be reached or the
\* recipient lacks permission, send raises to its caller; it does not return
\* normally.
C14_DeliveryFailureRaises ==
  (npc = "done" /\ ChannelRefused) => nresult.raised

\* C29: once TelegramEngine.send has returned or raised, none of the
\* deliveries it started is still in flight, so that the session is not
\* closed by __aexit__ under a running request.
C29_NoDeliveryInFlightAfterSend ==
  (nchannel = "telegram" /\ npc \in {"done", "exited"}) => ninflight = {}

\* C30: DiscordEngine.send with chat_type "channel": when the bot logs in,
\* the channel is fetched and is a text, group or DM channel, and the channel
\* takes every message, all the messages have been sent to it when send ends.
C30_ChannelGetsEveryMessage ==
  ( /\ nchannel = "discord" /\ ncred.chat_type = "channel"
    /\ npc \in {"done", "exited"}
    /\ nfate.login = "ok" /\ nfate.fetch = "ok"
    /\ \A i \in 1..nmessages : nfate.msgs[i] = "ok" )
    => (nattempted = nmessages /\ ndelivered = nmessages)

\* The credentials pass the format check of their channel.
FormatOk ==
  IF nchannel = "discord"
    THEN DiscordBotTokenMatch(ncred.bot_token)
           /\ DiscordChatIdMatch(ncred.chat_id)
    ELSE TelegramBotTokenMatch(ncred.bot_token)
           /\ TelegramChatIdNumeric(ncred.chat_id)

\* C15: field values that fail the format check are rejected when the
\* config is constructed, and send only ever runs with a config whose bot
\* token and recipient id passed it.
C15_BadCredentialsRejectedAtConfig ==
  /\ (npc # "new" /\ ~FormatOk) => npc = "rejected"
  /\ npc \in {"sending", "done"} => FormatOk

C15_Witness ==
  /\ npc = "rejected" /\ nchannel = "discord"
  /\ ncred.bot_token = <<"a", ".", "B">> /\ ncred.chat_id = Ones(18)

\* ====================================== claims on RequestSessionHelper
\* C20: over any entries, requests and exits on one instance, no client is
\* built before the first request, exactly one has been built from then on,
\* and close is called on it at most once, exactly once when it is closed.
C20_OneSessionClosedOnce ==
  /\ hrequests = 0 => hcreated = 0
  /\ hrequests > 0 => hcreated = 1
  /\ hcloses <= 1
  /\ h_session_ = "closed" => hcloses = 1

\* C27: over any entries, requests and exits on one instance, entering it
\* again after an exit included, no request is made on a client that has
\* already been closed.
C27_NoRequestOnClosedSession == hfailed = 0

=============================================================================
